---- MODULE Spec2Model ----
(***************************************************************************)
(* split-finances.py: calculate_settlements (the ledger pass over the rows *)
(* of the expenses table) followed by print_settlement_plan (the greedy    *)
(* settlement loop).                                                       *)
(*                                                                         *)
(* A dict is a sequence of entries [k |-> key, v |-> value] in insertion   *)
(* order, which is the order Python iterates it in.  A float is an exact   *)
(* number counted in units of 1/Denom of the currency unit (so that every  *)
(* share amount/len(...) the inputs can produce is exact), or one of the   *)
(* special values Inf, NegInf, NaN with the IEEE-754 rules of Python.      *)
(***************************************************************************)
EXTENDS Integers, Sequences, FiniteSets, TLC

VARIABLES pc, df, people, row, payer, involved, balances, total_balance,
          creditors, debtors, settlements, stdout, exc

vars == <<pc, df, people, row, payer, involved, balances, total_balance,
          creditors, debtors, settlements, stdout, exc>>

(* ------------------------------ bounds -------------------------------- *)

\* rows of the expenses table
MaxRows == 2
\* people of a balance mapping handed directly to print_settlement_plan
MaxPlanPeople == 3

(* ------------------------------ inputs -------------------------------- *)

\* values of the Payer column
Payers == {"Suruthy", "Arabi", "Cash", "cash"}
\* values of the Amount column, in currency units
Amounts == {1, 2}
\* values of the Involved column, already cut at ", "; <<>> is the empty
\* cell, which pandas reads as NaN
InvolvedCells ==
    {<<>>, <<"Suruthy">>, <<"Suruthy", "Arabi">>, <<"Arabi", "Arabi">>, <<"Cash">>}
Rows == [Payer : Payers, Amount : Amounts, Involved : InvolvedCells]
\* every name a cell can hold
AllNames == Payers \cup UNION {{c[i] : i \in DOMAIN c} : c \in InvolvedCells}
PlanNames == <<"P1", "P2", "P3", "P4", "P5", "P6">>

(* ------------------------------ floats -------------------------------- *)

RECURSIVE Gcd(_, _)
Gcd(a, b) == IF b = 0 THEN a ELSE Gcd(b, a % b)
RECURSIVE LcmUpTo(_)
LcmUpTo(n) == IF n <= 1 THEN 1 ELSE LET l == LcmUpTo(n - 1) IN (l * n) \div Gcd(l, n)
\* units per currency unit: every list length divides it
Denom == LcmUpTo(Cardinality(AllNames))
Inf == 1000 * Denom
NegInf == 0 - Inf
NaN == Inf + 1

IsFinite(a) == a # NaN /\ a # Inf /\ a # NegInf
FNeg(a) == IF a = NaN THEN NaN ELSE 0 - a
FAdd(a, b) ==
    IF a = NaN \/ b = NaN THEN NaN
    ELSE IF ~IsFinite(a) THEN (IF b = FNeg(a) THEN NaN ELSE a)
    ELSE IF ~IsFinite(b) THEN b
    ELSE a + b
FSub(a, b) == FAdd(a, FNeg(b))
FLt(a, b) == a # NaN /\ b # NaN /\ a < b
FGt(a, b) == FLt(b, a)
FEq(a, b) == a # NaN /\ b # NaN /\ a = b
\* max taken for min
BadMin(a, b) == IF FLt(b, a) THEN a ELSE b
\* Python's min(a, b): b if b < a else a
FMin(a, b) == IF FLt(b, a) THEN b ELSE a
\* float(row['Amount'])
ToFloat(n) == n * Denom
\* amount / len(xs), for len(xs) > 0
Share(amount, n) == IF IsFinite(amount) THEN amount \div n ELSE amount

(* ------------------------------- dicts -------------------------------- *)

Keys(d) == {d[i].k : i \in DOMAIN d}
Has(d, k) == k \in Keys(d)
Slot(d, k) == CHOOSE i \in DOMAIN d : d[i].k = k
\* d[k] of a defaultdict(float), without inserting
Get(d, k) == IF Has(d, k) THEN d[Slot(d, k)].v ELSE 0
\* d[k] = v
Put(d, k, v) ==
    IF Has(d, k) THEN [d EXCEPT ![Slot(d, k)].v = v]
    ELSE Append(d, [k |-> k, v |-> v])
\* for person in xs: d[person] += x
RECURSIVE AddEach(_, _, _)
AddEach(d, xs, x) ==
    IF xs = <<>> THEN d
    ELSE AddEach(Put(d, Head(xs), FAdd(Get(d, Head(xs)), x)), Tail(xs), x)
\* sum(d.values())
RECURSIVE FSum(_)
FSum(d) == IF d = <<>> THEN 0 ELSE FAdd(d[1].v, FSum(Tail(d)))
\* {person: balance for person, balance in d.items() if balance > 0}
RECURSIVE Positive(_)
Positive(d) ==
    IF d = <<>> THEN <<>>
    ELSE (IF FGt(d[1].v, 0) THEN <<d[1]>> ELSE <<>>) \o Positive(Tail(d))
\* the entries of d with balance < 0
RECURSIVE Negative(_)
Negative(d) ==
    IF d = <<>> THEN <<>>
    ELSE (IF FLt(d[1].v, 0) THEN <<d[1]>> ELSE <<>>) \o Negative(Tail(d))
\* the entries kept as they are, sign included
NotNegated(d) == d
\* {person: -balance ...}
Negated(d) == [i \in DOMAIN d |-> [k |-> d[i].k, v |-> FNeg(d[i].v)]]

(* ------------------------- calculate_settlements ---------------------- *)

\* str(x).lower()
Lower(s) ==
    CASE s = "Cash" -> "cash"
      [] s = "Suruthy" -> "suruthy"
      [] s = "Arabi" -> "arabi"
      [] OTHER -> s
IsNaCell(c) == c = <<>>
SeqSet(s) == {s[i] : i \in DOMAIN s}
\* the set the pre-pass collects from rows 1..n, before "Cash" is removed
RECURSIVE Collected(_, _)
Collected(rows, n) ==
    IF n = 0 THEN {}
    ELSE Collected(rows, n - 1)
         \cup (IF IsNaCell(rows[n].Involved) THEN {} ELSE SeqSet(rows[n].Involved))
         \cup {rows[n].Payer}
\* a registry that stops collecting after the first row
RegistryOfFirstRow(rows) == Collected(rows, IF rows = <<>> THEN 0 ELSE 1) \ {"Cash"}
Registry(rows) == Collected(rows, Len(rows)) \ {"Cash"}
\* list(people): the elements of the set in some order
ListsOf(S) ==
    {s \in [1 .. Cardinality(S) -> S] : \A i, j \in DOMAIN s : i # j => s[i] # s[j]}
IsCashPayer(p) == Lower(p) = "cash"
PayerOf(r, ppl) == IF IsCashPayer(r.Payer) THEN ppl ELSE <<r.Payer>>
InvolvedOf(r, ppl) == IF IsNaCell(r.Involved) THEN ppl ELSE r.Involved
\* the split taken over one person too many
SplitUsedPlusPayer(amount, inv) == Share(amount, Len(inv) + 1)
SplitUsed(amount, inv) == Share(amount, Len(inv))
SplitPaid(amount, pay) == Share(amount, Len(pay))

Init ==
    /\ pc = "prepass"
    /\ df \in UNION {[1 .. n -> Rows] : n \in 0 .. MaxRows}
    /\ people = <<>>
    /\ row = 0
    /\ payer = <<>>
    /\ involved = <<>>
    /\ balances = <<>>
    /\ total_balance = 0
    /\ creditors = <<>>
    /\ debtors = <<>>
    /\ settlements = <<>>
    /\ stdout = <<>>
    /\ exc = "none"

PrePass ==
    /\ pc = "prepass"
    /\ \E ppl \in ListsOf(Registry(df)) : people' = ppl
    /\ row' = 1
    /\ pc' = "rows"
    /\ UNCHANGED <<df, payer, involved, balances, total_balance, creditors,
                   debtors, settlements, stdout, exc>>

\* one iteration of the loop over the rows that runs to its end
ProcessRow ==
    /\ pc = "rows"
    /\ row <= Len(df)
    /\ LET pay == PayerOf(df[row], people)
           inv == InvolvedOf(df[row], people)
           amount == ToFloat(df[row].Amount)
       IN  /\ inv # <<>>
           /\ pay # <<>>
           /\ payer' = pay
           /\ involved' = inv
           /\ balances' = AddEach(AddEach(balances, inv, FNeg(SplitUsed(amount, inv))),
                                  pay, SplitPaid(amount, pay))
    /\ row' = row + 1
    /\ UNCHANGED <<pc, df, people, total_balance, creditors, debtors,
                   settlements, stdout, exc>>

\* one iteration that divides by len(...) = 0: at line 70 before any balance
\* is touched, or at line 75 after the involved were debited
ProcessRowFault ==
    /\ pc = "rows"
    /\ row <= Len(df)
    /\ LET pay == PayerOf(df[row], people)
           inv == InvolvedOf(df[row], people)
           amount == ToFloat(df[row].Amount)
       IN  /\ inv = <<>> \/ pay = <<>>
           /\ payer' = pay
           /\ involved' = inv
           /\ balances' = IF inv = <<>> THEN balances
                          ELSE AddEach(balances, inv, FNeg(SplitUsed(amount, inv)))
    /\ exc' = "ZeroDivisionError"
    /\ pc' = "fault"
    /\ UNCHANGED <<df, people, row, total_balance, creditors, debtors,
                   settlements, stdout>>

\* balances['Arabi'] += balances['Suruthy']; balances['Suruthy'] = 0
Transfer(d) ==
    Put(Put(d, "Arabi", FAdd(Get(d, "Arabi"), Get(d, "Suruthy"))), "Suruthy", 0)
BalanceLines(d) == [i \in DOMAIN d |-> "balance"]

\* after the last row: the printed balances, the total, the hardcoded transfer
Report ==
    /\ pc = "rows"
    /\ row > Len(df)
    /\ total_balance' = FSum(balances)
    /\ IF Has(balances, "Suruthy") /\ Has(balances, "Arabi")
       THEN /\ balances' = Transfer(balances)
            /\ stdout' = stdout \o <<"Net Balances">> \o BalanceLines(balances)
                          \o <<"Total balance">> \o <<"Transferring">>
                          \o BalanceLines(balances)
       ELSE /\ balances' = balances
            /\ stdout' = stdout \o <<"Net Balances">> \o BalanceLines(balances)
                          \o <<"Total balance">>
    /\ pc' = "call_plan"
    /\ UNCHANGED <<df, people, row, payer, involved, creditors, debtors,
                   settlements, exc>>

(* ------------------------- print_settlement_plan ---------------------- *)

\* `x is 0`, which no float satisfies
IsZeroByIdentity(v) == FALSE
\* x == 0
IsZero(v) == FEq(v, 0)
\* the settlement list is followed up to this length
SettleCap == Len(balances) + 2
PaysLines(s) == [i \in DOMAIN s |-> "pays"]

\* the dict comprehensions and the empty settlement list
StartPlan ==
    /\ pc = "call_plan"
    /\ creditors' = Positive(balances)
    /\ debtors' = Negated(Negative(balances))
    /\ settlements' = <<>>
    /\ pc' = "loop"
    /\ UNCHANGED <<df, people, row, payer, involved, balances, total_balance,
                   stdout, exc>>

\* if creditors[creditor] == 0: del creditors[creditor]; continue
DropCreditor ==
    /\ pc = "loop"
    /\ creditors # <<>> /\ debtors # <<>>
    /\ IsZero(creditors[1].v)
    /\ creditors' = Tail(creditors)
    /\ UNCHANGED <<pc, df, people, row, payer, involved, balances,
                   total_balance, debtors, settlements, stdout, exc>>

\* if debtors[debtor] == 0: del debtors[debtor]; continue
DropDebtor ==
    /\ pc = "loop"
    /\ creditors # <<>> /\ debtors # <<>>
    /\ ~IsZero(creditors[1].v)
    /\ IsZero(debtors[1].v)
    /\ debtors' = Tail(debtors)
    /\ UNCHANGED <<pc, df, people, row, payer, involved, balances,
                   total_balance, creditors, settlements, stdout, exc>>

\* the first debtor pays the first creditor min(...) and both are decreased
Settle ==
    /\ pc = "loop"
    /\ creditors # <<>> /\ debtors # <<>>
    /\ ~IsZero(creditors[1].v)
    /\ ~IsZero(debtors[1].v)
    /\ Len(settlements) < SettleCap
    /\ LET settlement_amount == FMin(creditors[1].v, debtors[1].v)
       IN  /\ settlements' = Append(settlements,
                                    <<debtors[1].k, creditors[1].k, settlement_amount>>)
           /\ creditors' = [creditors EXCEPT ![1].v = FSub(@, settlement_amount)]
           /\ debtors' = [debtors EXCEPT ![1].v = FSub(@, settlement_amount)]
    /\ UNCHANGED <<pc, df, people, row, payer, involved, balances,
                   total_balance, stdout, exc>>

\* the loop's exit and the printed plan
PrintPlan ==
    /\ pc = "loop"
    /\ creditors = <<>> \/ debtors = <<>>
    /\ stdout' = stdout \o <<"Settlement Plan:">> \o PaysLines(settlements)
    /\ pc' = "done"
    /\ UNCHANGED <<df, people, row, payer, involved, balances, total_balance,
                   creditors, debtors, settlements, exc>>

(* --------------------------- specifications --------------------------- *)

\* python split-finances.py expenses.csv
Next ==
    \/ PrePass
    \/ ProcessRow
    \/ ProcessRowFault
    \/ Report
    \/ StartPlan
    \/ DropCreditor
    \/ DropDebtor
    \/ Settle
    \/ PrintPlan

Spec == Init /\ [][Next]_vars

\* balances of a mapping handed to print_settlement_plan by a caller
PlanValues == (0 - 3) .. 3 \cup {Inf, NegInf, NaN}
PlanInputs ==
    UNION {{[i \in 1 .. n |-> [k |-> PlanNames[i], v |-> f[i]]] : f \in [1 .. n -> PlanValues]}
           : n \in 0 .. MaxPlanPeople}

\* print_settlement_plan(balances) called on its own
InitPlan ==
    /\ pc = "call_plan"
    /\ df = <<>>
    /\ people = <<>>
    /\ row = 0
    /\ payer = <<>>
    /\ involved = <<>>
    /\ balances \in PlanInputs
    /\ total_balance = 0
    /\ creditors = <<>>
    /\ debtors = <<>>
    /\ settlements = <<>>
    /\ stdout = <<>>
    /\ exc = "none"

NextPlan ==
    \/ StartPlan
    \/ DropCreditor
    \/ DropDebtor
    \/ Settle
    \/ PrintPlan

SpecPlan == InitPlan /\ [][NextPlan]_vars

(* ------------------------------- claims ------------------------------- *)

\* a mapping of finite balances whose sum is 0
SumsToZero(d) == (\A i \in DOMAIN d : IsFinite(d[i].v)) /\ FSum(d) = 0
NonZeroPeople(d) == Cardinality({i \in DOMAIN d : d[i].v # 0})
\* every instruction applied to d: debtor += amount, creditor -= amount
RECURSIVE Applied(_, _)
Applied(d, s) ==
    IF s = <<>> THEN d
    ELSE LET paid == Put(d, s[1][1], FAdd(Get(d, s[1][1]), s[1][3]))
         IN  Applied(Put(paid, s[1][2], FSub(Get(paid, s[1][2]), s[1][3])), Tail(s))
\* every name of the table, the literal "Cash" left out
AllNamed ==
    ({df[i].Payer : i \in DOMAIN df}
       \cup UNION {SeqSet(df[i].Involved) : i \in DOMAIN df}) \ {"Cash"}

\* C1: as long as no row has raised, the balances sum to 0: initially, after
\* every processed row, after the Suruthy-to-Arabi transfer and in the
\* mapping handed to print_settlement_plan.
C1_ZeroSum == exc = "none" => FSum(balances) = 0
C1_Witness ==
    /\ pc = "loop"
    /\ Len(df) = 2
    /\ Len(balances) >= 2
    /\ \E i \in DOMAIN balances : balances[i].v # 0

\* C2: when the loop has exited on a mapping that sums to 0, applying every
\* emitted instruction to that mapping leaves every balance 0.
C2_SettlementCorrect ==
    (pc = "done" /\ SumsToZero(balances)) =>
        \A i \in DOMAIN balances : Applied(balances, settlements)[i].v = 0
C2_Witness ==
    /\ pc = "done"
    /\ SumsToZero(balances)
    /\ Len(settlements) >= 2

\* C3 as stated: on a mapping that sums to 0 the number of instructions is at
\* most the number of people with a non-zero balance, less one.
C3_BoundAsStated ==
    (pc = "done" /\ SumsToZero(balances)) =>
        Len(settlements) <= NonZeroPeople(balances) - 1
\* C3: on a mapping that sums to 0, during the loop and at its exit, the
\* number of instructions is at most the number of people with a non-zero
\* balance, less one, when someone's balance is non-zero; with every balance
\* 0 there is no instruction.
C3_Bound ==
    (pc \in {"loop", "done"} /\ SumsToZero(balances)) =>
        IF NonZeroPeople(balances) = 0 THEN settlements = <<>>
        ELSE Len(settlements) <= NonZeroPeople(balances) - 1
C3_Witness ==
    /\ pc = "done"
    /\ SumsToZero(balances)
    /\ NonZeroPeople(balances) = 3
    /\ Len(settlements) = 2

\* C4: a processed row whose Involved cell is empty has the whole registry of
\* the table as its involved list, and changes every registry member's balance
\* by minus Amount/|registry| (plus what the member is credited as a payer).
C4_MissingInvolvedDefault ==
    [][(pc = "rows" /\ pc' = "rows" /\ row <= Len(df) /\ IsNaCell(df[row].Involved)) =>
         LET amount == ToFloat(df[row].Amount)
             share == amount \div Cardinality(AllNamed)
             credit(p) == IF IsCashPayer(df[row].Payer) THEN share
                          ELSE IF p = df[row].Payer THEN amount ELSE 0
         IN  /\ SeqSet(involved') = AllNamed
             /\ Len(involved') = Cardinality(AllNamed)
             /\ \A p \in AllNamed :
                    Get(balances', p) = Get(balances, p) - share + credit(p)]_vars
C4_Witness ==
    /\ pc = "rows"
    /\ row = 2
    /\ Len(df) = 2
    /\ IsNaCell(df[1].Involved)
    /\ \E p \in AllNamed : p # df[1].Payer /\ Get(balances, p) < 0

\* C5: no member of the registry and no key of the balances is a value the
\* ledger pass treats as the cash payer.
C5_SentinelNeverAPerson ==
    /\ \A i \in DOMAIN people : ~IsCashPayer(people[i])
    /\ \A k \in Keys(balances) : ~IsCashPayer(k)

\* C6: every instruction in the settlement list has an amount > 0.
C6_AmountsPositive == \A i \in DOMAIN settlements : FGt(settlements[i][3], 0)

\* C7: a row whose paying or involved list is empty is rejected: the step
\* that meets it raises nothing, changes no balance and prints an error.
C7_EmptySetRejected ==
    [][(/\ pc = "rows"
        /\ row <= Len(df)
        /\ \/ PayerOf(df[row], people) = <<>>
           \/ InvolvedOf(df[row], people) = <<>>) =>
         (/\ exc' = "none"
          /\ balances' = balances
          /\ \E i \in DOMAIN stdout' : stdout'[i] = "Error")]_vars

\* C8: when the planner has finished on a mapping that does not sum to 0, an
\* error has been printed.
C8_InconsistencySurfaced ==
    (pc = "done" /\ ~FEq(FSum(balances), 0)) =>
        \E i \in DOMAIN stdout : stdout[i] = "Error"

\* C9 as stated: when the loop has exited on a mapping that sums to 0, both
\* creditors and debtors are empty.
C9_BothEmptyAtExit ==
    (pc = "done" /\ SumsToZero(balances)) => (creditors = <<>> /\ debtors = <<>>)
\* C9: when the loop has exited on a mapping that sums to 0, creditors is
\* empty and every entry left in debtors has remaining balance 0.
C9_NothingOutstandingAtExit ==
    (pc = "done" /\ SumsToZero(balances)) =>
        (creditors = <<>> /\ \A i \in DOMAIN debtors : debtors[i].v = 0)
C9_Witness ==
    /\ pc = "done"
    /\ SumsToZero(balances)
    /\ settlements # <<>>
    /\ debtors # <<>>

\* C10: the loop reaches its exit; an iteration of a loop that does, being a
\* function of creditors and debtors alone, never leaves both as they were.
C10_LoopProgresses ==
    [][(pc = "loop" /\ pc' = "loop") => <<creditors, debtors>>' # <<creditors, debtors>>]_vars
====
